---- MODULE Spec2Model ----
(***************************************************************************)
(* Model of the tree-to-JSON encoder of goxml2json (encoder.go).           *)
(*                                                                         *)
(* A Go string is a sequence of bytes (0..255).  The output stream is an   *)
(* io.Writer: the encoder hands it one chunk per Write call.               *)
(***************************************************************************)
EXTENDS Integers, Sequences, FiniteSets, TLC

VARIABLES
    err,              \* enc.err ("nil" or an error value)
    contentPrefix,    \* enc.contentPrefix
    attributePrefix,  \* enc.attributePrefix
    indent,           \* enc.indent
    indentText,       \* enc.indentText
    out,              \* bytes the stream enc.w has accepted so far
    broken,           \* the stream rejects every Write (closed pipe, full disk)
    calls,            \* number of Encode / EncodeWithCustomPrefixes calls made
    last,             \* observation of the last call (op, root, return value, writes)
    configured,       \* history: prefixes set by NewEncoder / SetContentPrefix / SetAttributePrefix
    s,                \* input of sanitiseString (sanitiser specification)
    res,              \* result of sanitiseString
    pc                \* position of the sanitiser run

vars == <<err, contentPrefix, attributePrefix, indent, indentText, out, broken,
          calls, last, configured, s, res, pc>>

encVars == <<err, contentPrefix, attributePrefix, indent, indentText, out, broken,
             calls, last, configured>>

sanVars == <<s, res, pc>>

----------------------------------------------------------------------------
(* Bounds *)

\* longest input string of the sanitiser specification
MaxLen == 4

\* number of Encode / EncodeWithCustomPrefixes calls in one behaviour
MaxCalls == 2

\* most labels in one generated container
MaxLabels == 2

\* most children under one label in a generated container
MaxOcc == 2

----------------------------------------------------------------------------
(* Byte strings *)

RECURSIVE Concat(_)
\* concatenation of a sequence of byte strings (what the stream receives)
Concat(chunks) ==
    IF Len(chunks) = 0 THEN <<>>
    ELSE IF Len(chunks) = 1 THEN chunks[1]
    ELSE LET m == Len(chunks) \div 2
         IN  Concat(SubSeq(chunks, 1, m)) \o Concat(SubSeq(chunks, m + 1, Len(chunks)))

\* byte-wise lexicographic order of Go strings (operator < on strings)
RECURSIVE LexLess(_, _)
LexLess(a, b) ==
    IF b = <<>> THEN FALSE
    ELSE IF a = <<>> THEN TRUE
    ELSE IF Head(a) # Head(b) THEN Head(a) < Head(b)
    ELSE LexLess(Tail(a), Tail(b))

----------------------------------------------------------------------------
(* sanitiseString, encoder.go 158-238 *)

\* var hex = "0123456789abcdef"
hexUpper == <<48, 49, 50, 51, 52, 53, 54, 55, 56, 57, 65, 66, 67, 68, 69, 70>>
hex == <<48, 49, 50, 51, 52, 53, 54, 55, 56, 57, 97, 98, 99, 100, 101, 102>>

\* utf8.RuneSelf: bytes below it are single-byte runes
RuneSelf == 128

\* utf8.RuneError, U+FFFD
RuneError == 65533

\* a UTF-8 continuation byte at 1-based position j of str
IsCont(str, j) == j <= Len(str) /\ str[j] >= 128 /\ str[j] <= 191

\* utf8.DecodeRuneInString(str[i:]) for a lead byte >= RuneSelf at 1-based i:
\* the rune and its width, or (RuneError, 1) for an invalid or short encoding
DecodeRuneInString(str, i) ==
    LET b0   == str[i]
        bad  == [c |-> RuneError, size |-> 1]
        lo3  == IF b0 = 224 THEN 160 ELSE 128
        hi3  == IF b0 = 237 THEN 159 ELSE 191
        lo4  == IF b0 = 240 THEN 144 ELSE 128
        hi4  == IF b0 = 244 THEN 143 ELSE 191
    IN  IF b0 < 128 THEN [c |-> b0, size |-> 1]
        ELSE IF b0 >= 194 /\ b0 <= 223 THEN
            IF IsCont(str, i + 1)
            THEN [c |-> (b0 % 32) * 64 + (str[i + 1] % 64), size |-> 2]
            ELSE bad
        ELSE IF b0 >= 224 /\ b0 <= 239 THEN
            IF /\ i + 2 <= Len(str)
               /\ str[i + 1] >= lo3 /\ str[i + 1] <= hi3
               /\ IsCont(str, i + 2)
            THEN [c |-> (b0 % 16) * 4096 + (str[i + 1] % 64) * 64 + (str[i + 2] % 64),
                  size |-> 3]
            ELSE bad
        ELSE IF b0 >= 240 /\ b0 <= 244 THEN
            IF /\ i + 3 <= Len(str)
               /\ str[i + 1] >= lo4 /\ str[i + 1] <= hi4
               /\ IsCont(str, i + 2)
               /\ IsCont(str, i + 3)
            THEN [c |-> (b0 % 8) * 262144 + (str[i + 1] % 64) * 4096
                          + (str[i + 2] % 64) * 64 + (str[i + 3] % 64),
                  size |-> 4]
            ELSE bad
        ELSE bad

\* line 171: the ASCII bytes copied as they are
isPlainASCII(b) ==
    32 <= b /\ b # 92 /\ b # 34 /\ b # 60 /\ b # 62 /\ b # 38

\* lines 178-199: the escape written for an ASCII byte that is not plain
escapeASCII(b) ==
    IF b = 92 \/ b = 34 THEN <<92, b>>
    ELSE IF b = 10 THEN <<92, 110>>
    ELSE IF b = 13 THEN <<92, 114>>
    ELSE IF b = 9 THEN <<92, 116>>
    ELSE <<92, 117, 48, 48, hex[(b \div 16) + 1], hex[(b % 16) + 1]>>

\* lines 175-177, 206-208, 222-224: copy the pending run str[start:i]
\* (positions are 1-based here: the run is start..i-1)
flushRun(str, start, i, buf) ==
    IF start < i THEN buf \o SubSeq(str, start, i - 1) ELSE buf

\* lines 233-235 with the off-by-one slip start < len(s)-1
flushTailShort(str, start, buf) ==
    IF start < Len(str) THEN buf \o SubSeq(str, start, Len(str)) ELSE buf

\* lines 233-235: copy what is left after the loop
flushTail(str, start, buf) ==
    IF start <= Len(str) THEN buf \o SubSeq(str, start, Len(str)) ELSE buf

RECURSIVE sanitiseLoop(_, _, _, _)
\* lines 169-232: one iteration of the loop at 1-based position i, then the rest
sanitiseLoop(str, i, start, buf) ==
    IF i > Len(str) THEN flushTail(str, start, buf) \o <<34>>
    ELSE
      LET b == str[i] IN
      IF b < RuneSelf THEN
          IF isPlainASCII(b) THEN sanitiseLoop(str, i + 1, start, buf)
          ELSE sanitiseLoop(str, i + 1, i + 1,
                            flushRun(str, start, i, buf) \o escapeASCII(b))
      ELSE
        LET d == DecodeRuneInString(str, i) IN
        IF d.c = RuneError /\ d.size = 1 THEN
            sanitiseLoop(str, i + d.size, i + d.size,
                         flushRun(str, start, i, buf) \o <<92, 117, 102, 102, 102, 100>>)
        ELSE IF d.c = 8232 \/ d.c = 8233 THEN
            sanitiseLoop(str, i + d.size, i + d.size,
                         flushRun(str, start, i, buf)
                           \o <<92, 117, 50, 48, 50, hex[(d.c % 16) + 1]>>)
        ELSE sanitiseLoop(str, i + d.size, start, buf)

\* lines 164-238
sanitiseString(str) == sanitiseLoop(str, 1, 1, <<34>>)

----------------------------------------------------------------------------
(* Node: the input tree.  Children is a Go map from label to a slice of      *)
(* nodes; it is kept here as the sequence of its entries in the order a      *)
(* range over the map visits them (labels are distinct).                     *)

Leaf(data) == [Data |-> data, Children |-> <<>>]

Node(data, entries) == [Data |-> data, Children |-> entries]

Entry(label, nodes) == [label |-> label, nodes |-> nodes]

\* the nil *Node
NilRoot == [nil |-> TRUE]

IsNil(root) == "nil" \in DOMAIN root

\* Node.HasChildren
HasChildren(node) == Len(node.Children) > 0

\* curNode.Children[label]
ChildrenOf(node, label) ==
    node.Children[CHOOSE k \in 1..Len(node.Children) : node.Children[k].label = label].nodes

\* package constants contentPrefix and attrPrefix used by NewEncoder
DefaultContentPrefix == <<>>
DefaultAttrPrefix == <<45>>

----------------------------------------------------------------------------
(* The chunks handed to enc.w.Write *)

LBrace == <<123>>
RBrace == <<125>>
LBracket == <<91>>
RBracket == <<93>>
Quote == <<34>>
QuoteColon == <<34, 58, 32>>
CommaSpace == <<44, 32>>
CommaNewline == <<44, 10>>
Newline == <<10>>
Empty == <<>>
contentKey == <<99, 111, 110, 116, 101, 110, 116>>

----------------------------------------------------------------------------
(* Encoder.format, encoder.go 73-149.  enc carries the fields format reads:  *)
(* contentPrefix, indent, indentText.  The result is the sequence of chunks  *)
(* written, one per w.Write call.                                            *)

\* lines 74-80: indentN
indentN(enc, n) ==
    IF enc.indent THEN [k \in 1..n |-> enc.indentText] ELSE <<>>

\* sort.Strings: ascending byte-wise order (insertion into a sorted prefix)
RECURSIVE sortStrings(_)
sortStrings(sl) ==
    IF Len(sl) <= 1 THEN sl
    ELSE LET rest == sortStrings(Tail(sl))
             x    == Head(sl)
             n    == Cardinality({k \in 1..Len(rest) : LexLess(rest[k], x)})
         IN  SubSeq(rest, 1, n) \o <<x>> \o SubSeq(rest, n + 1, Len(rest))

\* lines 98-101 without the sort of 103-106
labelsUnsorted(curNode) ==
    [k \in 1..Len(curNode.Children) |-> curNode.Children[k].label]

\* lines 98-106: the labels in map iteration order, sorted when more than one
labels(curNode) ==
    LET sl == [k \in 1..Len(curNode.Children) |-> curNode.Children[k].label]
    IN  IF Len(sl) > 1 THEN sortStrings(sl) ELSE sl

RECURSIVE format(_, _, _)
RECURSIVE formatArray(_, _, _, _)
RECURSIVE formatEntries(_, _, _, _, _)

\* lines 117-131 with the array branch lost: only the first child is written
childValueFirstOnly(enc, children, lvl) == format(enc, children[1], lvl + 1)

\* lines 117-131: the value of one label
childValue(enc, children, lvl) ==
    IF Len(children) > 1
    THEN <<LBracket>> \o formatArray(enc, children, 1, lvl) \o <<RBracket>>
    ELSE format(enc, children[1], lvl + 1)

\* lines 121-126: the elements from index k on; com1 is "" before the first
formatArray(enc, children, k, lvl) ==
    IF k > Len(children) THEN <<>>
    ELSE <<IF k = 1 THEN Empty ELSE CommaSpace>>
         \o format(enc, children[k], lvl + 2)
         \o formatArray(enc, children, k + 1, lvl)

\* lines 109-138: the entries from index ii on; com is "" before the first
formatEntries(enc, curNode, sl, ii, lvl) ==
    IF ii > Len(sl) THEN <<>>
    ELSE <<IF ii = 1 THEN Empty
           ELSE IF enc.indent THEN CommaNewline ELSE CommaSpace>>
         \o indentN(enc, lvl + 1)
         \o <<Quote, sl[ii], QuoteColon>>
         \o childValue(enc, ChildrenOf(curNode, sl[ii]), lvl)
         \o formatEntries(enc, curNode, sl, ii + 1, lvl)

\* lines 90-96: the synthetic content entry
formatData(enc, curNode, lvl) ==
    IF Len(curNode.Data) > 0
    THEN indentN(enc, lvl + 1)
         \o <<Quote, enc.contentPrefix, contentKey, QuoteColon,
              sanitiseString(curNode.Data), CommaSpace>>
         \o (IF enc.indent THEN <<Newline>> ELSE <<>>)
    ELSE <<>>

\* lines 73-149
format(enc, curNode, lvl) ==
    IF HasChildren(curNode)
    THEN <<LBrace>>
         \o (IF enc.indent THEN <<Newline>> ELSE <<>>)
         \o formatData(enc, curNode, lvl)
         \o formatEntries(enc, curNode, labels(curNode), 1, lvl)
         \o <<Newline>>
         \o indentN(enc, lvl)
         \o <<RBrace>>
    ELSE <<sanitiseString(curNode.Data)>>

\* line 148: format returns nil whatever the stream answered
formatError == "nil"

\* lines 62-67 with the terminating write dropped
encodeWritesNoNewline(enc, root) == format(enc, root, 0)

\* lines 62-67: the writes of one Encode call on a non-nil root
encodeWrites(enc, root) == format(enc, root, 0) \o <<Newline>>

----------------------------------------------------------------------------
(* Inputs *)

hello == <<104, 101, 108, 108, 111>>
world == <<119, 111, 114, 108, 100>>
\* -v
dashV == <<45, 118>>
\* a"  (a label holding a double quote)
aQuote == <<97, 34>>
\* t<
textLt == <<116, 60>>

Labels == {hello, dashV, aQuote}

\* subtrees placed under a label: a leaf, and a container with its own text
Inner == Node(textLt, <<Entry(hello, <<Leaf(world)>>)>>)
Kids == {Leaf(world), Inner}

\* the sequences of n distinct labels: every insertion / iteration order
LabelSeqs(n) ==
    {ls \in [1..n -> Labels] : \A i, j \in 1..n : i # j => ls[i] # ls[j]}

\* the child sequences of one label: 1..MaxOcc subtrees
ChildSeqs == UNION {[1..n -> Kids] : n \in 1..MaxOcc}

\* containers of 1..MaxLabels labels; the entry visited first holds any child
\* sequence, the others a single subtree
Containers ==
    UNION {
        {Node(d, [k \in 1..n |-> Entry(ls[k], IF k = 1 THEN first ELSE <<ks[k]>>)]) :
            d \in {<<>>, textLt}, ls \in LabelSeqs(n), first \in ChildSeqs,
            ks \in [2..n -> Kids]}
        : n \in 1..MaxLabels}

\* roots of the single-call specification
Trees == {Leaf(world), Leaf(<<>>)} \cup Containers

\* the README tree: <hello>world</hello>
HelloWorld == Node(<<>>, <<Entry(hello, <<Leaf(world)>>)>>)

\* roots of the multi-call specification: nil, a leaf, the README tree, and a
\* container with text of its own
Roots ==
    { NilRoot,
      Leaf(world),
      HelloWorld,
      Node(textLt, <<Entry(hello, <<Leaf(world)>>)>>) }

\* prefixes given to SetContentPrefix / SetAttributePrefix: # and @
SetPrefixes == {<<35>>}
SetAttrPrefixes == {<<64>>}
\* prefixes given to EncodeWithCustomPrefixes: $ and @
CallPrefixes == {<<36>>}
CallAttrPrefixes == {<<64>>}
\* indent strings given to SetIndent: two spaces
IndentTexts == {<<32, 32>>}

\* bytes of the sanitiser's inputs: a control byte, TAB, LF, CR, quote, &, <,
\* backslash, a, and bytes that combine into U+2028 / U+2029 (E2 80 A8 /
\* E2 80 A9), into other valid two- and three-byte encodings, and into
\* invalid ones
Bytes == {1, 9, 10, 13, 34, 38, 60, 92, 97, 128, 168, 169, 195, 226}

Strings == UNION {[1..n -> Bytes] : n \in 0..MaxLen}

----------------------------------------------------------------------------
(* State machine *)

\* fields of enc that format reads
encOf(cp, ind, text) == [contentPrefix |-> cp, indent |-> ind, indentText |-> text]

\* observation of one call: what was asked, under which settings, what the
\* encoder wrote (one chunk per Write), whether the stream rejected it, and
\* what the call returned
Call(op, root, enc, conf, ret, writes, rejected) ==
    [op |-> op, root |-> root, enc |-> enc, configured |-> conf, ret |-> ret,
     writes |-> writes, rejected |-> rejected]

NoCall ==
    Call("none", NilRoot, encOf(DefaultContentPrefix, FALSE, <<>>),
         [content |-> DefaultContentPrefix, attribute |-> DefaultAttrPrefix],
         "nil", <<>>, FALSE)

\* NewEncoder, encoder.go 21-29, on a fresh stream
Init ==
    /\ err = "nil"
    /\ contentPrefix = DefaultContentPrefix
    /\ attributePrefix = DefaultAttrPrefix
    /\ indent = FALSE
    /\ indentText = <<>>
    /\ out = <<>>
    /\ broken = FALSE
    /\ calls = 0
    /\ last = NoCall
    /\ configured = [content |-> DefaultContentPrefix, attribute |-> DefaultAttrPrefix]
    /\ s = <<>>
    /\ res = <<>>
    /\ pc = "idle"

\* lines 31-34
SetAttributePrefix(prefix) ==
    /\ attributePrefix' = prefix
    /\ configured' = [configured EXCEPT !.attribute = prefix]
    /\ UNCHANGED <<err, contentPrefix, indent, indentText, out, broken, calls, last>>
    /\ UNCHANGED sanVars

\* lines 36-39
SetContentPrefix(prefix) ==
    /\ contentPrefix' = prefix
    /\ configured' = [configured EXCEPT !.content = prefix]
    /\ UNCHANGED <<err, attributePrefix, indent, indentText, out, broken, calls, last>>
    /\ UNCHANGED sanVars

\* lines 41-45
SetIndent(text) ==
    /\ indent' = TRUE
    /\ indentText' = text
    /\ UNCHANGED <<err, contentPrefix, attributePrefix, out, broken, calls, last, configured>>
    /\ UNCHANGED sanVars

\* the stream starts rejecting writes (environment)
BreakStream ==
    /\ ~broken
    /\ broken' = TRUE
    /\ UNCHANGED <<err, contentPrefix, attributePrefix, indent, indentText, out, calls,
                   last, configured>>
    /\ UNCHANGED sanVars

\* lines 54-70 (and 152-156: write drops the stream's answer), with the
\* content prefix cp in force during the call
encodeBody(op, root, cp) ==
    LET enc == encOf(cp, indent, indentText) IN
    /\ calls < MaxCalls
    /\ calls' = calls + 1
    /\ IF err # "nil"
       THEN /\ last' = Call(op, root, enc, configured, err, <<>>, FALSE)
            /\ UNCHANGED <<err, out>>
       ELSE IF IsNil(root)
       THEN /\ last' = Call(op, root, enc, configured, "nil", <<>>, FALSE)
            /\ UNCHANGED <<err, out>>
       ELSE LET w == encodeWrites(enc, root)
            IN  /\ err' = formatError
                /\ out' = IF broken THEN out ELSE out \o Concat(w)
                /\ last' = Call(op, root, enc, configured, formatError, w, broken)
    /\ UNCHANGED <<indent, indentText, broken, configured>>
    /\ UNCHANGED sanVars

\* lines 54-70
Encode(root) ==
    /\ encodeBody("Encode", root, contentPrefix)
    /\ UNCHANGED <<contentPrefix, attributePrefix>>

\* lines 47-51
EncodeWithCustomPrefixes(root, cp, ap) ==
    /\ contentPrefix' = cp
    /\ attributePrefix' = ap
    /\ encodeBody("EncodeWithCustomPrefixes", root, cp)

Next ==
    \/ \E p \in SetAttrPrefixes : SetAttributePrefix(p)
    \/ \E p \in SetPrefixes : SetContentPrefix(p)
    \/ \E t \in IndentTexts : SetIndent(t)
    \/ BreakStream
    \/ \E root \in Roots : Encode(root)
    \/ \E root \in Roots, cp \in CallPrefixes, ap \in CallAttrPrefixes :
           EncodeWithCustomPrefixes(root, cp, ap)

Spec == Init /\ [][Next]_vars

\* the encoder is configured, then Encode is called once on any generated tree
NextTree ==
    \/ \E p \in SetPrefixes : calls = 0 /\ SetContentPrefix(p)
    \/ \E t \in IndentTexts : calls = 0 /\ SetIndent(t)
    \/ \E root \in Trees : calls = 0 /\ Encode(root)

SpecTree == Init /\ [][NextTree]_vars

\* the sanitiser alone: any input string, then one call
InitSan ==
    /\ err = "nil"
    /\ contentPrefix = DefaultContentPrefix
    /\ attributePrefix = DefaultAttrPrefix
    /\ indent = FALSE
    /\ indentText = <<>>
    /\ out = <<>>
    /\ broken = FALSE
    /\ calls = 0
    /\ last = NoCall
    /\ configured = [content |-> DefaultContentPrefix, attribute |-> DefaultAttrPrefix]
    /\ s \in Strings
    /\ res = <<>>
    /\ pc = "ready"

Sanitise ==
    /\ pc = "ready"
    /\ res' = sanitiseString(s)
    /\ pc' = "done"
    /\ UNCHANGED s
    /\ UNCHANGED encVars

NextSan == Sanitise

SpecSan == InitSan /\ [][NextSan]_vars

----------------------------------------------------------------------------
(* Properties of sanitiseString *)

\* the units of str from 1-based position i on, left to right: an ASCII byte,
\* a validly encoded code point (all its bytes), or one invalid byte
RECURSIVE Units(_, _)
Units(str, i) ==
    IF i > Len(str) THEN <<>>
    ELSE LET d == DecodeRuneInString(str, i)
             invalid == str[i] >= 128 /\ d.c = 65533 /\ d.size = 1
         IN  <<[bytes |-> SubSeq(str, i, i + d.size - 1), c |-> d.c, invalid |-> invalid]>>
             \o Units(str, i + d.size)

\* lowercase hexadecimal digit of n in 0..15
HexDigit(n) == IF n < 10 THEN 48 + n ELSE 87 + n

\* the image of one unit, as the escaping rules state it
Image(u) ==
    IF u.invalid THEN <<92, 117, 102, 102, 102, 100>>
    ELSE IF u.c = 92 THEN <<92, 92>>
    ELSE IF u.c = 34 THEN <<92, 34>>
    ELSE IF u.c = 10 THEN <<92, 110>>
    ELSE IF u.c = 13 THEN <<92, 114>>
    ELSE IF u.c = 9 THEN <<92, 116>>
    ELSE IF u.c < 32 \/ u.c \in {60, 62, 38}
         THEN <<92, 117, 48, 48, HexDigit(u.c \div 16), HexDigit(u.c % 16)>>
    ELSE IF u.c = 8232 THEN <<92, 117, 50, 48, 50, 56>>
    ELSE IF u.c = 8233 THEN <<92, 117, 50, 48, 50, 57>>
    ELSE u.bytes

Images(str) == LET us == Units(str, 1) IN [k \in 1..Len(us) |-> Image(us[k])]

\* C4: sanitiseString(s) is a double quote, the images of the units of s in
\* order, and a double quote
C4_SanitiseIsImageOfUnits ==
    pc = "done" => res = <<34>> \o Concat(Images(s)) \o <<34>>

\* a result in which a plain byte, an escaped byte and a multi-byte unit meet
C4_Witness ==
    /\ pc = "done"
    /\ \E i, j, k \in 1..Len(s) : s[i] = 97 /\ s[j] = 60 /\ s[k] = 226
    /\ Len(res) > Len(s) + 2

\* no control byte, quote, backslash, <, >, &, U+2028 or U+2029 in str
NothingToEscape(str) ==
    /\ \A i \in 1..Len(str) : str[i] >= 32 /\ str[i] \notin {34, 92, 60, 62, 38}
    /\ LET us == Units(str, 1)
       IN  \A k \in 1..Len(us) : us[k].invalid \/ us[k].c \notin {8232, 8233}

\* every byte of str belongs to a valid encoding
WellEncoded(str) ==
    LET us == Units(str, 1) IN \A k \in 1..Len(us) : ~us[k].invalid

\* C9 as stated: a string with nothing to escape comes back unchanged
\* between two double quotes
C9_CleanStringUnchanged ==
    (pc = "done" /\ NothingToEscape(s)) => res = <<34>> \o s \o <<34>>

\* C9 amended: a validly encoded string with nothing to escape comes back
\* unchanged between two double quotes
C9_CleanValidStringUnchanged ==
    (pc = "done" /\ NothingToEscape(s) /\ WellEncoded(s)) => res = <<34>> \o s \o <<34>>

\* a clean string mixing ASCII with a three-byte code point (U+2000)
C9_Witness ==
    /\ pc = "done"
    /\ NothingToEscape(s) /\ WellEncoded(s)
    /\ \E i \in 1..Len(s) : s[i] = 97
    /\ \E i \in 1..Len(s) : s[i] = 226
    /\ res = <<34>> \o s \o <<34>>

----------------------------------------------------------------------------
(* Reading the writes of a call.  A key is written as the three chunks       *)
(* ", label, ": ; an object opens with the chunk { and closes with }.        *)

\* the last call ran format on a root
Encoded == last.op # "none" /\ ~IsNil(last.root) /\ last.writes # <<>>

\* the text of the last call's writes
Text == Concat(last.writes)

\* a child label is written at position p of w
IsKeyAt(w, p) ==
    /\ 1 < p /\ p < Len(w)
    /\ w[p - 1] = Quote
    /\ w[p + 1] = QuoteColon

\* number of objects open at position p of w (the chunk at p included)
BraceDepth(w, p) ==
    Cardinality({k \in 1..p : w[k] = LBrace}) - Cardinality({k \in 1..p : w[k] = RBrace})

\* positions p < q lie in the same object
SameObject(w, p, q) ==
    /\ BraceDepth(w, p) = BraceDepth(w, q)
    /\ \A k \in p..q : BraceDepth(w, k) >= BraceDepth(w, p)

\* positions of the keys of the root object
RootKeys(w) == {p \in 1..Len(w) : IsKeyAt(w, p) /\ BraceDepth(w, p) = 1}

\* the labels of a node, as a set
LabelSet(node) == {node.Children[k].label : k \in 1..Len(node.Children)}

\* C1: the keys of every object written are in ascending byte-wise order, and
\* the keys of the root object are exactly the root's labels, whatever the
\* order the Children map was iterated in
C1_KeysAscending ==
    Encoded =>
        LET w == last.writes
            keys == {p \in 1..Len(w) : IsKeyAt(w, p)}
        IN
        /\ \A p, q \in keys : (p < q /\ SameObject(w, p, q)) => LexLess(w[p], w[q])
        /\ {w[p] : p \in RootKeys(w)} = LabelSet(last.root)
        /\ Cardinality(RootKeys(w)) = Len(last.root.Children)

\* a root whose map was iterated in descending label order has been encoded
C1_Witness ==
    /\ Encoded
    /\ Len(last.root.Children) >= 2
    /\ LexLess(last.root.Children[2].label, last.root.Children[1].label)
    /\ Cardinality(RootKeys(last.writes)) >= 2

\* nesting of objects and arrays over positions v..p of w
Nest(w, v, p) ==
    Cardinality({k \in v..p : w[k] = LBrace \/ w[k] = LBracket})
      - Cardinality({k \in v..p : w[k] = RBrace \/ w[k] = RBracket})

\* last position of the value that starts at position v of w
ValueEnd(w, v) ==
    IF w[v] = LBrace \/ w[v] = LBracket
    THEN CHOOSE e \in v..Len(w) :
            Nest(w, v, e) = 0 /\ \A k \in v..(e - 1) : Nest(w, v, k) > 0
    ELSE v

\* a string literal chunk: what sanitiseString returns
IsStringChunk(c) == Len(c) >= 2 /\ c[1] = 34 /\ c[Len(c)] = 34

\* start positions of the elements of the array that occupies v..e of w
ElementStarts(w, v, e) ==
    {j \in (v + 1)..(e - 1) :
        /\ Nest(w, v, j - 1) = 1
        /\ w[j] = LBrace \/ IsStringChunk(w[j])}

\* the k-th smallest member of a set of positions
Kth(S, k) == CHOOSE x \in S : Cardinality({y \in S : y < x}) = k - 1

\* the value written for the root label at key position p is the bare encoding
\* of the only child, or an array of the encodings of all children in order
ValueShape(w, enc, p, children) ==
    LET v == p + 2
        e == ValueEnd(w, v)
        n == Len(children)
        starts == ElementStarts(w, v, e)
    IN  IF n = 1
        THEN /\ w[v] # LBracket
             /\ SubSeq(w, v, e) = format(enc, children[1], 1)
        ELSE /\ w[v] = LBracket
             /\ w[e] = RBracket
             /\ Cardinality(starts) = n
             /\ \A k \in 1..n :
                   LET a == Kth(starts, k)
                   IN  SubSeq(w, a, ValueEnd(w, a)) = format(enc, children[k], 2)
             /\ \A k \in 1..(n - 1) :
                   Concat(SubSeq(w, ValueEnd(w, Kth(starts, k)) + 1, Kth(starts, k + 1) - 1))
                       = CommaSpace

\* C2: under every label of the root, one child is written bare and n > 1
\* children are written as an array of exactly n elements, each the encoding
\* of one child, in the order of the child sequence
C2_BareOrArray ==
    Encoded =>
        LET w == last.writes IN
        \A p \in RootKeys(w) :
            /\ w[p] \in LabelSet(last.root)
            /\ ValueShape(w, last.enc, p, ChildrenOf(last.root, w[p]))

\* a root with one label holding a single child and another holding two
\* different children has been encoded
C2_Witness ==
    /\ Encoded
    /\ \E i, j \in 1..Len(last.root.Children) :
          /\ Len(last.root.Children[i].nodes) = 1
          /\ Len(last.root.Children[j].nodes) = 2
          /\ last.root.Children[j].nodes[1] # last.root.Children[j].nodes[2]
    /\ Cardinality(RootKeys(last.writes)) = 2

----------------------------------------------------------------------------
(* JSON syntax (RFC 8259) over a byte string.  Each recogniser takes a       *)
(* 1-based position and answers the position after what it recognised, or 0. *)

RECURSIVE SkipWs(_, _)
SkipWs(t, i) ==
    IF i <= Len(t) /\ t[i] \in {32, 10, 13, 9} THEN SkipWs(t, i + 1) ELSE i

IsHexDigit(b) == b \in 48..57 \/ b \in 97..102 \/ b \in 65..70

\* the rest of a string literal from position i, after its opening quote
RECURSIVE JsonStringRest(_, _)
JsonStringRest(t, i) ==
    IF i > Len(t) THEN 0
    ELSE IF t[i] = 34 THEN i + 1
    ELSE IF t[i] < 32 THEN 0
    ELSE IF t[i] = 92 THEN
        IF i + 1 > Len(t) THEN 0
        ELSE IF t[i + 1] \in {34, 92, 47, 98, 102, 110, 114, 116}
             THEN JsonStringRest(t, i + 2)
        ELSE IF /\ t[i + 1] = 117
                /\ i + 5 <= Len(t)
                /\ \A k \in 2..5 : IsHexDigit(t[i + k])
             THEN JsonStringRest(t, i + 6)
        ELSE 0
    ELSE IF t[i] < 128 THEN JsonStringRest(t, i + 1)
    ELSE LET d == DecodeRuneInString(t, i)
         IN  IF d.c = 65533 /\ d.size = 1 THEN 0 ELSE JsonStringRest(t, i + d.size)

JsonString(t, i) ==
    IF i <= Len(t) /\ t[i] = 34 THEN JsonStringRest(t, i + 1) ELSE 0

RECURSIVE Digits(_, _)
\* the position after the digits that start at i (i itself when there is none)
Digits(t, i) ==
    IF i <= Len(t) /\ t[i] \in 48..57 THEN Digits(t, i + 1) ELSE i

JsonNumber(t, i) ==
    LET a == IF i <= Len(t) /\ t[i] = 45 THEN i + 1 ELSE i
        b == IF a <= Len(t) /\ t[a] = 48 THEN a + 1
             ELSE IF a <= Len(t) /\ t[a] \in 49..57 THEN Digits(t, a)
             ELSE 0
        c == IF b = 0 THEN 0
             ELSE IF b <= Len(t) /\ t[b] = 46
                  THEN (IF Digits(t, b + 1) > b + 1 THEN Digits(t, b + 1) ELSE 0)
             ELSE b
        x == IF c # 0 /\ c <= Len(t) /\ t[c] \in {101, 69}
             THEN LET g == IF c + 1 <= Len(t) /\ t[c + 1] \in {43, 45}
                           THEN c + 2 ELSE c + 1
                  IN  IF Digits(t, g) > g THEN Digits(t, g) ELSE 0
             ELSE c
    IN  x

\* the word (true, false, null) stands at position i
JsonWord(t, i, word) ==
    IF i + Len(word) - 1 <= Len(t) /\ SubSeq(t, i, i + Len(word) - 1) = word
    THEN i + Len(word) ELSE 0

RECURSIVE JsonValue(_, _)
RECURSIVE JsonMembers(_, _)
RECURSIVE JsonElements(_, _)

JsonValue(t, i0) ==
    LET i == SkipWs(t, i0) IN
    IF i > Len(t) THEN 0
    ELSE IF t[i] = 34 THEN JsonString(t, i)
    ELSE IF t[i] = 123 THEN
        LET j == SkipWs(t, i + 1)
        IN  IF j <= Len(t) /\ t[j] = 125 THEN j + 1 ELSE JsonMembers(t, j)
    ELSE IF t[i] = 91 THEN
        LET j == SkipWs(t, i + 1)
        IN  IF j <= Len(t) /\ t[j] = 93 THEN j + 1 ELSE JsonElements(t, j)
    ELSE IF t[i] = 116 THEN JsonWord(t, i, <<116, 114, 117, 101>>)
    ELSE IF t[i] = 102 THEN JsonWord(t, i, <<102, 97, 108, 115, 101>>)
    ELSE IF t[i] = 110 THEN JsonWord(t, i, <<110, 117, 108, 108>>)
    ELSE JsonNumber(t, i)

\* the members of an object from position i (a key), through its closing brace
JsonMembers(t, i) ==
    LET k == JsonString(t, i)
        c == IF k = 0 THEN 0 ELSE SkipWs(t, k)
        v == IF c # 0 /\ c <= Len(t) /\ t[c] = 58 THEN JsonValue(t, c + 1) ELSE 0
        n == IF v = 0 THEN 0 ELSE SkipWs(t, v)
    IN  IF n = 0 \/ n > Len(t) THEN 0
        ELSE IF t[n] = 125 THEN n + 1
        ELSE IF t[n] = 44 THEN JsonMembers(t, SkipWs(t, n + 1))
        ELSE 0

\* the elements of an array from position i, through its closing bracket
JsonElements(t, i) ==
    LET v == JsonValue(t, i)
        n == IF v = 0 THEN 0 ELSE SkipWs(t, v)
    IN  IF n = 0 \/ n > Len(t) THEN 0
        ELSE IF t[n] = 93 THEN n + 1
        ELSE IF t[n] = 44 THEN JsonElements(t, n + 1)
        ELSE 0

\* t is exactly one JSON value followed by a newline
IsJsonLine(t) ==
    /\ Len(t) >= 1
    /\ t[Len(t)] = 10
    /\ LET body == SubSeq(t, 1, Len(t) - 1)
           e    == JsonValue(body, 1)
       IN  e # 0 /\ SkipWs(body, e) = Len(body) + 1

\* C3: the text written by an Encode call on a non-nil root is one valid JSON
\* value followed by a newline
C3_OutputIsValidJson == Encoded => IsJsonLine(Text)

----------------------------------------------------------------------------
(* Properties of Encode and EncodeWithCustomPrefixes *)

\* C5: a call during which the stream rejected a write returns an error
C5_WriteErrorReturned == last.rejected => last.ret # "nil"

\* t ends with one newline that directly follows a closing brace or the
\* closing quote of a string
EndsWithOneNewline(t) ==
    /\ Len(t) >= 2
    /\ t[Len(t)] = 10
    /\ t[Len(t) - 1] \in {125, 34}

\* C6 as stated: after every call that returned nil, whatever its root, the
\* output ends with exactly one newline right after the final token
C6_NilReturnEndsWithNewline ==
    (last.op # "none" /\ last.ret = "nil") => EndsWithOneNewline(out)

\* t ends with the bytes of u
EndsWith(t, u) ==
    Len(t) >= Len(u) /\ SubSeq(t, Len(t) - Len(u) + 1, Len(t)) = u

\* C6 amended: a call that returned nil on a non-nil root wrote, last of all,
\* the final token of the value and then one newline, and the output ends
\* with them when the stream accepted the writes; a call on a nil root wrote
\* nothing
C6_NonNilRootEndsWithNewline ==
    (last.op # "none" /\ last.ret = "nil") =>
        IF IsNil(last.root) THEN last.writes = <<>>
        ELSE LET w == last.writes
                 n == Len(w)
             IN  /\ n >= 2
                 /\ w[n] = Newline
                 /\ w[n - 1] = RBrace \/ IsStringChunk(w[n - 1])
                 /\ EndsWithOneNewline(Text)
                 /\ ~last.rejected => EndsWith(out, Text) /\ EndsWithOneNewline(out)

\* a second call, on a container, has ended on a stream that takes writes
C6_Witness ==
    /\ calls = 2
    /\ last.op = "Encode"
    /\ ~IsNil(last.root) /\ HasChildren(last.root)
    /\ last.ret = "nil"
    /\ ~last.rejected
    /\ Len(out) > Len(Text)

\* number of newline bytes in t
Newlines(t) == Cardinality({k \in 1..Len(t) : t[k] = 10})

\* {"hello": "world"} and a newline
HelloWorldLine ==
    <<123, 34>> \o hello \o <<34, 58, 32, 34>> \o world \o <<34, 125, 10>>

\* C7: without indent the text of a call holds one newline, the final one,
\* and the tree hello -> "world" gives {"hello": "world"} and a newline
C7_CompactHasOneNewline ==
    (Encoded /\ ~last.enc.indent) =>
        /\ Newlines(Text) = 1
        /\ last.root = HelloWorld => Text = HelloWorldLine

\* position of the first key written (the chunk " that opens it)
FirstQuote(w) == CHOOSE q \in 1..Len(w) : w[q] = Quote /\ \A k \in 1..(q - 1) : w[k] # Quote

\* position of the next key after position q
NextQuote(w, q) ==
    CHOOSE r \in (q + 1)..Len(w) : w[r] = Quote /\ \A k \in (q + 1)..(r - 1) : w[k] # Quote

\* the last call encoded a container that has text of its own
EncodedMixed == Encoded /\ HasChildren(last.root) /\ Len(last.root.Data) > 0

\* C8: a plain Encode writes the content key with the prefix configured by
\* NewEncoder / SetContentPrefix, whatever an earlier
\* EncodeWithCustomPrefixes was given
C8_CustomPrefixesAreForOneCall ==
    (EncodedMixed /\ last.op = "Encode") =>
        LET w == last.writes
            q == FirstQuote(w)
        IN  w[q + 1] \o w[q + 2] = last.configured.content \o contentKey

\* C10: the content key and the sanitised Data are the first entry of the
\* object, and what separates them from the next key is ", " without indent
\* and ",\n" plus the next key's indentation with indent
C10_ContentEntryFirst ==
    EncodedMixed =>
        LET w == last.writes
            q == FirstQuote(w)
            r == NextQuote(w, q)
        IN  /\ w[q + 1] \o w[q + 2] = last.enc.contentPrefix \o contentKey
            /\ w[q + 3] = QuoteColon
            /\ w[q + 4] = sanitiseString(last.root.Data)
            /\ IsKeyAt(w, r + 1)
            /\ Concat(SubSeq(w, q + 5, r - 1)) =
                  IF last.enc.indent
                  THEN CommaNewline \o last.enc.indentText
                  ELSE CommaSpace

====
